---- MODULE Spec2Model ----
(***************************************************************************)
(* fix-whitespace: the template-string tag of src/fix-whitespace.js.       *)
(*                                                                         *)
(* A JavaScript string is a TLA+ string; a line list is a sequence of      *)
(* strings.  Every function of the source is an operator of the same name, *)
(* computed the way the source computes it, and the statements of tag are  *)
(* the actions of the state machine.                                       *)
(***************************************************************************)
EXTENDS Integers, Sequences, FiniteSets

VARIABLES literals, values, pc, resultLines, minWhitespace, result, depth

vars == <<literals, values, pc, resultLines, minWhitespace, result, depth>>

(***************************************************************************)
(* Bounds of the model.                                                    *)
(***************************************************************************)
MaxChars == 3
MaxValues == 1
MaxTextLen == 7
MaxMeasureChars == 6

(***************************************************************************)
(* JavaScript values.  kind is the value's type; str carries a string's    *)
(* text, num a number's magnitude or a boolean's 0/1.                      *)
(***************************************************************************)
StringValue(s) == [kind |-> "string", str |-> s, num |-> 0]
NumberValue(n) == [kind |-> "number", str |-> "", num |-> n]
BooleanValue(b) == [kind |-> "boolean", str |-> "", num |-> IF b THEN 1 ELSE 0]
NaN == [kind |-> "NaN", str |-> "", num |-> 0]
null == [kind |-> "null", str |-> "", num |-> 0]
undefined == [kind |-> "undefined", str |-> "", num |-> 0]

\* faulty variant: if (value != null), only null and undefined are skipped
TruthyNotNullish(value) == value.kind \notin {"null", "undefined"}

\* if (value): '', 0, false, null, undefined and NaN are falsy.
Truthy(value) ==
  CASE value.kind = "string" -> value.str /= ""
    [] value.kind = "number" -> value.num /= 0
    [] value.kind = "boolean" -> value.num = 1
    [] OTHER -> FALSE

Digits == <<"0", "1", "2", "3", "4", "5", "6", "7", "8", "9">>

RECURSIVE NumberToString(_)
NumberToString(n) ==
  IF n < 10 THEN Digits[n + 1]
  ELSE NumberToString(n \div 10) \o Digits[(n % 10) + 1]

\* value.toString(); null and undefined have no toString (a TypeError).
toString(value) ==
  CASE value.kind = "string" -> value.str
    [] value.kind = "number" -> NumberToString(value.num)
    [] value.kind = "boolean" -> (IF value.num = 1 THEN "true" ELSE "false")
    [] value.kind = "NaN" -> "NaN"

(***************************************************************************)
(* String and array built-ins.                                             *)
(***************************************************************************)
CharAt(str, i) == SubSeq(str, i, i)

RECURSIVE IndexOfFrom(_, _, _)
IndexOfFrom(str, ch, i) ==
  IF i > Len(str) THEN 0
  ELSE IF CharAt(str, i) = ch THEN i
  ELSE IndexOfFrom(str, ch, i + 1)

\* str.split('\n')
RECURSIVE split(_)
split(str) ==
  LET i == IndexOfFrom(str, "\n", 1)
  IN  IF i = 0 THEN <<str>>
      ELSE <<SubSeq(str, 1, i - 1)>> \o split(SubSeq(str, i + 1, Len(str)))

\* lines.join(sep)
RECURSIVE join(_, _)
join(lines, sep) ==
  IF Len(lines) = 0 THEN ""
  ELSE IF Len(lines) = 1 THEN lines[1]
  ELSE lines[1] \o sep \o join(Tail(lines), sep)

\* line.slice(n), n >= 0
slice(line, n) ==
  IF n >= Len(line) THEN "" ELSE SubSeq(line, n + 1, Len(line))

\* ' '.repeat(n)
RECURSIVE repeat(_, _)
repeat(ch, n) == IF n = 0 THEN "" ELSE ch \o repeat(ch, n - 1)

\* faulty variant: the later number wins, no minimum is kept
MathMinLast(a, b) == b

\* Math.min
MathMin(a, b) == IF b < a THEN b ELSE a

\* Infinity, as the seed of the reduce: above every line length.
Infinity == 1000000

(***************************************************************************)
(* The whitespace primitives.                                              *)
(***************************************************************************)
\* faulty variant: a tab counts as whitespace
isWhitespaceCharacterTab(char) == char \in {" ", "\t"}

isWhitespaceCharacter(char) == char \in {" "}

RECURSIVE whitespaceAtBeginningFrom(_, _)
whitespaceAtBeginningFrom(str, i) ==
  IF i > Len(str) THEN Len(str)
  ELSE IF ~isWhitespaceCharacter(CharAt(str, i)) THEN i - 1
  ELSE whitespaceAtBeginningFrom(str, i + 1)

whitespaceAtBeginning(str) == whitespaceAtBeginningFrom(str, 1)

isOnlyWhitespace(str) == whitespaceAtBeginning(str) = Len(str)

RECURSIVE reduceMinWhitespace(_, _)
reduceMinWhitespace(lines, min) ==
  IF Len(lines) = 0 THEN min
  ELSE reduceMinWhitespace(Tail(lines),
         IF isOnlyWhitespace(Head(lines)) THEN min
         ELSE MathMin(min, whitespaceAtBeginning(Head(lines))))

\* faulty variant: the whitespace-only lines are not ignored
RECURSIVE reduceAllLines(_, _)
reduceAllLines(lines, min) ==
  IF Len(lines) = 0 THEN min
  ELSE reduceAllLines(Tail(lines), MathMin(min, whitespaceAtBeginning(Head(lines))))

whitespaceAtBeginningMultilineAllLines(str) ==
  LET min == reduceAllLines(split(str), Infinity)
  IN  IF min = Infinity THEN 0 ELSE min

whitespaceAtBeginningMultiline(str) ==
  LET min == reduceMinWhitespace(split(str), Infinity)
  IN  IF min = Infinity THEN 0 ELSE min

(***************************************************************************)
(* squishArrays, joinTemplateString and the two edge trimmers.             *)
(***************************************************************************)
\* faulty variant: a plain concat, the first item on a line of its own
squishArraysConcat(arr1, arr2) == arr1 \o arr2

squishArrays(arr1, arr2) ==
  LET first == IF Len(arr2) = 0 THEN "undefined" ELSE arr2[1]
      rest == IF Len(arr2) = 0 THEN <<>> ELSE Tail(arr2)
      lastOfArr1 == IF Len(arr1) = 0 THEN "" ELSE arr1[Len(arr1)]
      init == IF Len(arr1) = 0 THEN <<>> ELSE SubSeq(arr1, 1, Len(arr1) - 1)
  IN  (init \o <<lastOfArr1 \o first>>) \o rest

\* values[literalI], undefined past the end of the values
valueAt(vals, literalI) ==
  IF literalI <= Len(vals) THEN vals[literalI] ELSE undefined

\* the indentation given to the continuation lines of the value after literal
whitespaceAmount(literalLines) ==
  whitespaceAtBeginning(literalLines[Len(literalLines)])

\* [first, ...rest.map(line => ' '.repeat(whitespaceAmount) + line)]
modifiedLines(valueLines, amount) ==
  [k \in 1..Len(valueLines) |->
     IF k = 1 THEN valueLines[k] ELSE repeat(" ", amount) \o valueLines[k]]

\* curResultLines of one pass of the loop
curResultLines(literal, value) ==
  LET literalLines == split(literal)
  IN  IF Truthy(value)
      THEN squishArrays(literalLines,
             modifiedLines(split(toString(value)), whitespaceAmount(literalLines)))
      ELSE literalLines

\* resultLines after the first n passes of the loop
RECURSIVE joinLoop(_, _, _)
joinLoop(lits, vals, n) ==
  IF n = 0 THEN <<>>
  ELSE squishArrays(joinLoop(lits, vals, n - 1),
                    curResultLines(lits[n], valueAt(vals, n)))

joinTemplateString(lits, vals) == join(joinLoop(lits, vals, Len(lits)), "\n")

\* faulty variant: an if in place of the while, one line shifted at most
shiftWhitespaceLinesOnce(lines) ==
  IF Len(lines) = 0 THEN lines
  ELSE IF isOnlyWhitespace(lines[1]) THEN Tail(lines)
  ELSE lines

RECURSIVE shiftWhitespaceLines(_)
shiftWhitespaceLines(lines) ==
  IF Len(lines) = 0 THEN lines
  ELSE IF isOnlyWhitespace(lines[1]) THEN shiftWhitespaceLines(Tail(lines))
  ELSE lines

removeInitialWhitespaceLines(lines) == join(shiftWhitespaceLines(split(lines)), "\n")

\* faulty variant: an if in place of the while, one line popped at most
popWhitespaceLinesOnce(lines) ==
  IF Len(lines) = 0 THEN lines
  ELSE IF isOnlyWhitespace(lines[Len(lines)]) THEN SubSeq(lines, 1, Len(lines) - 1)
  ELSE lines

RECURSIVE popWhitespaceLines(_)
popWhitespaceLines(lines) ==
  IF Len(lines) = 0 THEN lines
  ELSE IF isOnlyWhitespace(lines[Len(lines)])
       THEN popWhitespaceLines(SubSeq(lines, 1, Len(lines) - 1))
  ELSE lines

removeLeadingWhitespaceLines(lines) == join(popWhitespaceLines(split(lines)), "\n")

\* resultLines.map(line => line.slice(minWhitespace))
dedentLines(lines, n) == [k \in 1..Len(lines) |-> slice(lines[k], n)]

\* tag(literals, ...values), as one expression
tag(lits, vals) ==
  removeLeadingWhitespaceLines(removeInitialWhitespaceLines(
    join(dedentLines(split(joinTemplateString(lits, vals)),
                     whitespaceAtBeginningMultiline(join(lits, ""))), "\n")))

(***************************************************************************)
(* The inputs: templates of at most MaxValues values whose literals hold   *)
(* at most MaxChars characters together, and texts of at most MaxTextLen   *)
(* characters.                                                             *)
(***************************************************************************)
Alphabet == {" ", "\n", "a", "\t"}

RECURSIVE Strings(_)
Strings(n) ==
  IF n = 0 THEN {""}
  ELSE LET shorter == Strings(n - 1)
       IN  shorter \cup {s \o c : s \in {t \in shorter : Len(t) = n - 1}, c \in Alphabet}

FalsyValues ==
  {StringValue(""), NumberValue(0), BooleanValue(FALSE), null, undefined, NaN}

TruthyValues ==
  {StringValue("a"), StringValue(" a\na"), NumberValue(10), BooleanValue(TRUE)}

ValueSet == FalsyValues \cup TruthyValues

\* the literals of the text cut at the positions cuts (non-decreasing)
RECURSIVE cutText(_, _, _)
cutText(text, cuts, from) ==
  IF Len(cuts) = 0 THEN <<SubSeq(text, from + 1, Len(text))>>
  ELSE <<SubSeq(text, from + 1, cuts[1])>> \o cutText(text, Tail(cuts), cuts[1])

Cuts(text, n) ==
  {c \in [1..n -> 0..Len(text)] : \A k \in 1..(n - 1) : c[k] <= c[k + 1]}

(***************************************************************************)
(* tag, statement by statement.                                            *)
(***************************************************************************)
Call(lits, vals) ==
  /\ literals = lits
  /\ values = vals
  /\ pc = "call"
  /\ resultLines = <<>>
  /\ minWhitespace = 0
  /\ result = ""

Init ==
  /\ depth = 0
  /\ \E text \in Strings(MaxChars), n \in 0..MaxValues :
       \E cuts \in Cuts(text, n), vals \in [1..n -> ValueSet] :
         Call(cutText(text, cuts, 0), vals)

InitText ==
  /\ depth = 0
  /\ \E text \in Strings(MaxTextLen) : Call(<<text>>, <<>>)

\* let resultLines = joinTemplateString(literals, ...values).split('\n')
Join ==
  /\ pc = "call"
  /\ resultLines' = split(joinTemplateString(literals, values))
  /\ pc' = "joined"
  /\ UNCHANGED <<literals, values, minWhitespace, result, depth>>

\* minWhitespace, resultLines.map(...), let result = resultLines.join('\n')
Dedent ==
  /\ pc = "joined"
  /\ minWhitespace' = whitespaceAtBeginningMultiline(join(literals, ""))
  /\ resultLines' = dedentLines(resultLines, minWhitespace')
  /\ result' = join(resultLines', "\n")
  /\ pc' = "dedented"
  /\ UNCHANGED <<literals, values, depth>>

\* result = removeInitialWhitespaceLines(result)
TrimInitial ==
  /\ pc = "dedented"
  /\ result' = removeInitialWhitespaceLines(result)
  /\ pc' = "trimmedInitial"
  /\ UNCHANGED <<literals, values, resultLines, minWhitespace, depth>>

\* result = removeLeadingWhitespaceLines(result); return result
TrimLeading ==
  /\ pc = "trimmedInitial"
  /\ result' = removeLeadingWhitespaceLines(result)
  /\ pc' = "done"
  /\ UNCHANGED <<literals, values, resultLines, minWhitespace, depth>>

Next == Join \/ Dedent \/ TrimInitial \/ TrimLeading

Spec == Init /\ [][Next]_vars

SpecText == InitText /\ [][Next]_vars

\* templates of one value more than Spec's, for the claims about two
\* insertion points
InitPair ==
  /\ depth = 0
  /\ \E text \in Strings(MaxChars) :
       \E cuts \in Cuts(text, MaxValues + 1), vals \in [1..(MaxValues + 1) -> ValueSet] :
         Call(cutText(text, cuts, 0), vals)

SpecPair == InitPair /\ [][Next]_vars

\* templates of one value whose literals hold at most MaxMeasureChars
\* characters together: several lines of literal text around a value that is
\* absent, of one line or of two lines
MeasureValues == {undefined, StringValue("a"), StringValue(" a\na")}

InitMeasure ==
  /\ depth = 0
  /\ \E text \in Strings(MaxMeasureChars) :
       \E cuts \in Cuts(text, 1), vals \in [1..1 -> MeasureValues] :
         Call(cutText(text, cuts, 0), vals)

SpecMeasure == InitMeasure /\ [][Next]_vars

\* the demo: the result of one tag is a value of an outer template
Nest ==
  /\ pc = "done"
  /\ depth = 0
  /\ \E text \in Strings(MaxChars) :
       \E cuts \in Cuts(text, 1) :
         /\ literals' = cutText(text, cuts, 0)
         /\ values' = <<StringValue(result)>>
  /\ pc' = "call"
  /\ resultLines' = <<>>
  /\ minWhitespace' = 0
  /\ result' = ""
  /\ depth' = depth + 1

NextNest == Next \/ Nest

SpecNest == Init /\ [][NextNest]_vars

(***************************************************************************)
(* What the claims are stated with: a text read character by character,    *)
(* without the operators above.                                            *)
(***************************************************************************)
Newlines(text) == {i \in 1..Len(text) : CharAt(text, i) = "\n"}

\* the position of the k-th newline of text; 0 for k = 0, Len + 1 past the last
NewlineAt(text, k) ==
  IF k = 0 THEN 0
  ELSE IF k > Cardinality(Newlines(text)) THEN Len(text) + 1
  ELSE CHOOSE p \in Newlines(text) :
         Cardinality({q \in Newlines(text) : q < p}) = k - 1

LinesOf(text) ==
  [k \in 1..(Cardinality(Newlines(text)) + 1) |->
     SubSeq(text, NewlineAt(text, k - 1) + 1, NewlineAt(text, k) - 1)]

Blank(line) == \A j \in 1..Len(line) : CharAt(line, j) = " "

LeadingSpaces(line) ==
  CHOOSE k \in 0..Len(line) :
    /\ \A j \in 1..k : CharAt(line, j) = " "
    /\ k = Len(line) \/ CharAt(line, k + 1) /= " "

\* the text of n space characters
RECURSIVE Spaces(_)
Spaces(n) == IF n = 0 THEN "" ELSE " " \o Spaces(n - 1)

\* the least indentation of the non-blank lines, 0 when there is none
MinIndent(lines) ==
  LET indents == {LeadingSpaces(lines[k]) : k \in {j \in 1..Len(lines) : ~Blank(lines[j])}}
  IN  IF indents = {} THEN 0
      ELSE CHOOSE m \in indents : \A x \in indents : m <= x

\* line without its first m characters
DropChars(line, m) ==
  IF m >= Len(line) THEN "" ELSE SubSeq(line, m + 1, Len(line))

NonBlankIndices(lines) == {k \in 1..Len(lines) : ~Blank(lines[k])}

FirstNonBlank(lines) ==
  CHOOSE k \in NonBlankIndices(lines) : \A j \in NonBlankIndices(lines) : k <= j

LastNonBlank(lines) ==
  CHOOSE k \in NonBlankIndices(lines) : \A j \in NonBlankIndices(lines) : k >= j

\* text1 \o text2 \o ... of a sequence of texts
RECURSIVE Concat(_)
Concat(texts) == IF Len(texts) = 0 THEN "" ELSE Head(texts) \o Concat(Tail(texts))

\* the falsy values: '', 0, false, null, undefined, NaN
IsFalsy(value) == value \in FalsyValues

AllFalsy == \A i \in 1..Len(values) : IsFalsy(values[i])

\* the lines from the first to the last non-blank one, <<>> when all are blank
BetweenNonBlank(lines) ==
  IF NonBlankIndices(lines) = {} THEN <<>>
  ELSE SubSeq(lines, FirstNonBlank(lines), LastNonBlank(lines))

\* result is the text whose lines are kept: the empty string for no line
ResultIsLines(kept) ==
  IF Len(kept) = 0 THEN result = "" ELSE LinesOf(result) = kept

(***************************************************************************)
(* C4.  No-value identity: for a template of one literal and no value the  *)
(* result is the text with its first m characters removed from every line, *)
(* m the least indentation of its non-blank lines (0 if none), and its     *)
(* blank lines at the start and at the end deleted; the indentation of any *)
(* two non-blank lines differs in the result as it does in the text.       *)
(***************************************************************************)
NoValueReference(text) ==
  LET lines == LinesOf(text)
      m == MinIndent(lines)
      kept == BetweenNonBlank(lines)
  IN  [k \in 1..Len(kept) |-> DropChars(kept[k], m)]

C4_NoValueIdentity ==
  (pc = "done" /\ Len(literals) = 1 /\ Len(values) = 0) =>
    LET lines == LinesOf(literals[1])
        out == LinesOf(result)
    IN  /\ ResultIsLines(NoValueReference(literals[1]))
        /\ \A i, j \in NonBlankIndices(lines) :
             LET shift == FirstNonBlank(lines) - 1
             IN  LeadingSpaces(out[i - shift]) - LeadingSpaces(out[j - shift])
                   = LeadingSpaces(lines[i]) - LeadingSpaces(lines[j])

\* a text whose lines are indented, end with a blank line and keep two lines
C4_Witness ==
  /\ pc = "done"
  /\ Len(literals) = 1 /\ Len(values) = 0
  /\ minWhitespace > 0
  /\ Len(LinesOf(result)) = 2
  /\ LeadingSpaces(LinesOf(result)[2]) > 0
  /\ Len(resultLines) > 2

(***************************************************************************)
(* C6.  Blank-edge-only trimming: the two trimmers applied to the dedented *)
(* text return its lines from the first non-blank one to the last          *)
(* non-blank one, in order and verbatim, the blank lines between them      *)
(* included; the result is empty or begins and ends with a non-blank line. *)
(***************************************************************************)
C6_BlankEdgeTrimming ==
  pc = "done" =>
    LET text == join(resultLines, "\n")
        kept == BetweenNonBlank(LinesOf(text))
        out == LinesOf(result)
    IN  /\ ResultIsLines(kept)
        /\ \/ result = ""
           \/ ~Blank(out[1]) /\ ~Blank(out[Len(out)])

\* blank lines were removed at both ends and one was kept inside
C6_Witness ==
  /\ pc = "done"
  /\ Len(resultLines) >= 5
  /\ Blank(resultLines[1])
  /\ Blank(resultLines[Len(resultLines)])
  /\ \E k \in 2..(Len(LinesOf(result)) - 1) : Blank(LinesOf(result)[k])

(***************************************************************************)
(* C9.  The indentation removed is measured on the literals alone: it is   *)
(* the least number of leading space characters (a tab is no space) of the *)
(* non-blank lines of the concatenated literals, 0 when there is no such   *)
(* line, whatever the values are.                                          *)
(***************************************************************************)
C9_MinIndentFromLiterals ==
  pc \in {"dedented", "trimmedInitial", "done"} =>
    minWhitespace = MinIndent(LinesOf(Concat(literals)))

\* a truthy value between two literals whose non-blank lines are indented
\* differently, the less indented one last, and one of them holds a tab
C9_Witness ==
  /\ pc = "dedented"
  /\ ~IsFalsy(values[1])
  /\ literals[1] /= "" /\ literals[2] /= ""
  /\ minWhitespace = 1
  /\ LET lines == LinesOf(Concat(literals))
     IN  /\ Len(lines) = 2
         /\ ~Blank(lines[1]) /\ ~Blank(lines[2])
         /\ LeadingSpaces(lines[1]) = 2
         /\ LeadingSpaces(lines[2]) = 1
         /\ \E k \in 1..2 : \E c \in 1..Len(lines[k]) : CharAt(lines[k], c) = "\t"

(***************************************************************************)
(* C7.  A template whose literals hold only spaces and newlines and whose  *)
(* values are all falsy yields the empty string.                           *)
(***************************************************************************)
AllBlankLiterals ==
  \A i \in 1..Len(literals) :
    \A j \in 1..Len(literals[i]) : CharAt(literals[i], j) \in {" ", "\n"}

C7_BlankTemplateIsEmpty ==
  (pc = "done" /\ AllBlankLiterals /\ AllFalsy) => result = ""

\* spaces and a newline around a falsy value that has no toString
C7_Witness ==
  /\ pc = "done"
  /\ AllBlankLiterals /\ AllFalsy
  /\ Len(values) = 1 /\ values[1] \in {null, undefined, NumberValue(0)}
  /\ \E j \in 1..Len(Concat(literals)) : CharAt(Concat(literals), j) = "\n"
  /\ \E j \in 1..Len(Concat(literals)) : CharAt(Concat(literals), j) = " "

(***************************************************************************)
(* C10.  Squish merge: joinTemplateString returns L[0] W[0] L[1] ... L[n], *)
(* W[i] empty for a falsy value and else the string of the value with      *)
(* offset_i spaces after each of its newlines, offset_i the leading spaces *)
(* of the last line of L[i]; its lines are one more than the newlines of   *)
(* the literals and of the strings of the truthy values.                   *)
(***************************************************************************)
\* text with n spaces inserted after each newline, from position i on
RECURSIVE IndentAfterNewlines(_, _, _)
IndentAfterNewlines(text, n, i) ==
  IF i > Len(text) THEN ""
  ELSE (IF CharAt(text, i) = "\n" THEN "\n" \o Spaces(n) ELSE CharAt(text, i))
         \o IndentAfterNewlines(text, n, i + 1)

LastLine(text) == LinesOf(text)[Len(LinesOf(text))]

Inserted(i) ==
  IF ~IsFalsy(values[i])
  THEN IndentAfterNewlines(toString(values[i]), LeadingSpaces(LastLine(literals[i])), 1)
  ELSE ""

\* L[1] W[1] ... L[n], the text up to the n-th insertion point
RECURSIVE JoinedUpTo(_)
JoinedUpTo(n) ==
  IF n = 1 THEN literals[1]
  ELSE (JoinedUpTo(n - 1) \o Inserted(n - 1)) \o literals[n]

RECURSIVE SumOver(_, _)
SumOver(f, n) == IF n = 0 THEN 0 ELSE f[n] + SumOver(f, n - 1)

NewlineCount ==
  SumOver([i \in 1..Len(literals) |-> Cardinality(Newlines(literals[i]))], Len(literals))
  + SumOver([i \in 1..Len(values) |->
               IF ~IsFalsy(values[i]) THEN Cardinality(Newlines(toString(values[i]))) ELSE 0],
            Len(values))

C10_SquishMerge ==
  pc = "joined" =>
    /\ join(resultLines, "\n") = JoinedUpTo(Len(literals))
    /\ Len(resultLines) = 1 + NewlineCount

\* a value of two lines after an indented literal, text after it
C10_Witness ==
  /\ pc = "joined"
  /\ Len(values) = 1 /\ ~IsFalsy(values[1])
  /\ Len(LinesOf(toString(values[1]))) = 2
  /\ LeadingSpaces(LastLine(literals[1])) > 0
  /\ literals[2] /= ""
  /\ Len(resultLines) = 2

(***************************************************************************)
(* C5.  Idempotence, as claimed: tag on the one-literal template of any    *)
(* result of tag returns that result.                                      *)
(***************************************************************************)
C5_Idempotence ==
  pc = "done" => tag(<<result>>, <<>>) = result

(***************************************************************************)
(* C5, amended.  Idempotence for the templates whose values are all falsy  *)
(* (or that have none): tag on the one-literal template of the result      *)
(* returns the result.                                                     *)
(***************************************************************************)
C5_IdempotenceNoTruthyValue ==
  (pc = "done" /\ AllFalsy) => tag(<<result>>, <<>>) = result

\* a falsy value in a template that is dedented and loses a blank first line
C5_Witness ==
  /\ pc = "done"
  /\ AllFalsy /\ Len(values) = 1
  /\ minWhitespace > 0
  /\ result /= ""
  /\ Len(resultLines) > Len(LinesOf(result))

(***************************************************************************)
(* C1.  Falsy elision: a falsy value at any position gives the result of   *)
(* the template without that value, its two neighbouring literals          *)
(* concatenated, whatever the other values are.                            *)
(***************************************************************************)
\* the literals with lits[i] and lits[i + 1] concatenated
ElideLiteral(lits, i) ==
  [k \in 1..(Len(lits) - 1) |->
     IF k < i THEN lits[k]
     ELSE IF k = i THEN lits[i] \o lits[i + 1]
     ELSE lits[k + 1]]

\* the values without vals[i]
ElideValue(vals, i) ==
  [k \in 1..(Len(vals) - 1) |-> IF k < i THEN vals[k] ELSE vals[k + 1]]

C1_FalsyElision ==
  pc = "done" =>
    \A i \in 1..Len(values) :
      IsFalsy(values[i]) =>
        result = tag(ElideLiteral(literals, i), ElideValue(values, i))

(***************************************************************************)
(* C2.  Local alignment: before the dedent, each continuation line of a    *)
(* truthy value stands in the joined lines with exactly k spaces before    *)
(* its text, k the leading spaces of the joined line up to the insertion   *)
(* point, and the first line of the value follows that line directly; at   *)
(* every insertion point, one after an earlier value on the line included. *)
(***************************************************************************)
HasPrefix(line, prefix) ==
  Len(prefix) <= Len(line) /\ SubSeq(line, 1, Len(prefix)) = prefix

C2_LocalAlignment ==
  pc = "joined" =>
    \A i \in 1..Len(values) :
      ~IsFalsy(values[i]) =>
        LET valueLines == LinesOf(toString(values[i]))
            before == LinesOf(JoinedUpTo(i))
            at == Len(before)
            k == LeadingSpaces(before[at])
        IN  /\ HasPrefix(resultLines[at], before[at] \o valueLines[1])
            /\ \A j \in 2..Len(valueLines) :
                 IF j < Len(valueLines)
                 THEN resultLines[at + j - 1] = Spaces(k) \o valueLines[j]
                 ELSE HasPrefix(resultLines[at + j - 1], Spaces(k) \o valueLines[j])

(***************************************************************************)
(* C3.  The dedent removes only spaces: each dedented line is its joined   *)
(* line without exactly minWhitespace leading spaces, or is empty for a    *)
(* whitespace-only line shorter than that; no other character is dropped,  *)
(* on the lines of the values either.                                      *)
(***************************************************************************)
C3_DedentRemovesOnlySpaces ==
  [][pc = "joined" =>
       \A k \in 1..Len(resultLines) :
         \/ resultLines[k] = Spaces(minWhitespace') \o resultLines'[k]
         \/ /\ Blank(resultLines[k])
            /\ Len(resultLines[k]) < minWhitespace'
            /\ resultLines'[k] = ""]_vars

(***************************************************************************)
(* C8.  Nesting: a result of tag inserted in an outer template keeps its   *)
(* structure in the outer result: its lines stand there in order with all  *)
(* their characters, and each continuation line with the same indentation  *)
(* added, the offset of the insertion point less the outer dedent.         *)
(***************************************************************************)
Contains(line, part) ==
  \E p \in 1..(Len(line) + 1) :
    p + Len(part) - 1 <= Len(line) /\ SubSeq(line, p, p + Len(part) - 1) = part

C8_NestingKeepsStructure ==
  (depth = 1 /\ pc = "done" /\ ~IsFalsy(values[1])) =>
    LET inner == LinesOf(toString(values[1]))
        out == LinesOf(result)
        added == LeadingSpaces(LastLine(literals[1])) - minWhitespace
    IN  /\ added >= 0
        /\ \E at \in 1..Len(out) :
             /\ at + Len(inner) - 1 <= Len(out)
             /\ Contains(out[at], inner[1])
             /\ \A j \in 2..Len(inner) :
                  IF j < Len(inner)
                  THEN out[at + j - 1] = Spaces(added) \o inner[j]
                  ELSE HasPrefix(out[at + j - 1], Spaces(added) \o inner[j])

=============================================================================
